---------------------------- MODULE Spec2Model ----------------------------
(***************************************************************************)
(* Thread lifecycle manager of the forum bot in src/main.py: the four      *)
(* tracking dictionaries of ThreadManager, the event handlers of           *)
(* DiscordBot, the reminder tasks, the periodic inactivity sweep and the   *)
(* two buttons (close, mark priority).                                     *)
(*                                                                         *)
(* The bot runs on one asyncio event loop: a handler runs without          *)
(* interruption from one `await` of a Discord command to the next.  Every  *)
(* action below is one such uninterrupted stretch of one handler; a        *)
(* handler suspended on a command is a record in `handlers`, a reminder    *)
(* task a record in `tasks`, the sweep a record in `sweep`.                *)
(*                                                                         *)
(* Time is counted in units of 24 hours (REMINDER_TIME = 1 unit,           *)
(* AUTO_CLOSE_TIME = 2 units).  Commands and event-loop latency are far    *)
(* shorter than a unit: the clock does not advance while a handler is      *)
(* suspended on a command or while a reminder's sleep is over and the      *)
(* task has not run yet.                                                   *)
(*                                                                         *)
(* Two readings of the source are kept side by side (variable tagPlus):    *)
(*   - main.py:452 lacks a comma (applied_tags=post_tags reason=...), so   *)
(*     the file as written does not compile; it is read with the comma,    *)
(*     the only reading under which there is a program;                    *)
(*   - every `post_tags = self.track_posts[..][2] + self.tags.<x>` adds a  *)
(*     ForumTag to a list.  With discord.py's ForumTag that raises         *)
(*     TypeError (tagPlus = "raises"); tagPlus = "joins" is the reading in *)
(*     which the list accepts the tag and the handler goes on to the       *)
(*     command it was preparing.                                           *)
(***************************************************************************)
EXTENDS Integers, FiniteSets, Sequences, Bags, TLC

\* ------------------------------------------------------------------ bounds
MaxThreads == 2
MaxTime == 2
MaxTasks == 2
MaxInFlight == 2

\* ------------------------------------------------------- program constants
\* Config.REMINDER_TIME = 24 * 3600 seconds and Config.AUTO_CLOSE_TIME =
\* 48 * 3600 seconds, in units of 24 hours.
REMINDER_TIME == 1
AUTO_CLOSE_TIME == 2
\* Config.CLOSE_ON_LEAVE
CLOSE_ON_LEAVE == TRUE

Threads == 1..MaxThreads
TaskIds == 1..MaxTasks

\* o1 opens the threads, s1 holds a role of Config.STAFF_ID, h1 is a plain
\* member who owns no thread and only uses the buttons.  o1 holds the staff
\* role in some runs and not in others (see roles).
Users == {"o1", "s1", "h1"}
Posters == {"o1", "s1"}

\* Config.STAFF_ID: the ids of the staff roles.
STAFF_ID == {"staff"}

\* thread.owner_id of each thread: threads 1 and 2 are o1's, thread 3 is the
\* staff member's own, any further thread is h1's.
ThreadOwner(t) == IF t <= 2 THEN "o1" ELSE IF t = 3 THEN "s1" ELSE "h1"

\* The members who open threads.
Owners == {ThreadOwner(t) : t \in Threads}

\* ForumTags: the four status tags of the forum.
awaiting_response == "awaiting_response"
in_progress == "in_progress"
solved_closed == "solved_closed"
inactive == "inactive"
Tags == {awaiting_response, in_progress, solved_closed, inactive}

\* thread.applied_tags when the thread is created: the tags its author chose.
CreateTags == {{}}

VARIABLES
  tagPlus,      \* "raises" | "joins": what list + ForumTag does (see above)
  now,          \* the clock
  members,      \* the guild's members
  roles,        \* member -> the ids of the member's roles (user.roles)
  thState,      \* thread -> "none" | "open" | "deleted" (the forum's threads)
  applied_tags, \* thread -> thread.applied_tags on Discord
  archived,     \* the threads archived on Discord
  locked,       \* the threads locked on Discord
  tm,           \* ThreadManager: activity, scheduled_reminders, track_posts, bump_bool
  tasks,        \* the live reminder tasks: id -> [t, pc, wake]
  handlers,     \* slot -> the handler suspended on a command, or idle
  sweep,        \* check_inactivity_task: the loop and the pass in progress
  sent          \* thread -> the messages with buttons the bot has sent to it

vars == <<tagPlus, now, members, roles, thState, applied_tags, archived, locked, tm,
          tasks, handlers, sweep, sent>>

discord == <<thState, applied_tags, archived, locked>>

\* ------------------------------------------------------------ dictionaries
Empty == [x \in {} |-> 0]
Put(f, k, v) == [x \in (DOMAIN f) \cup {k} |-> IF x = k THEN v ELSE f[x]]
Pop(f, k) == [x \in (DOMAIN f) \ {k} |-> f[x]]

\* self.track_posts[owner] = [thread.id, last responder id, applied_tags]
Entry(t, u, tags) == [tid |-> t, last |-> u, tags |-> tags]

\* A handler suspended on a command: the handler, its thread, the member
\* whose event it handles and the post_tags it built before the await.
\* `handlers` is the bag of the suspended handlers.
Handler(k, t, u, tags) == [kind |-> k, t |-> t, who |-> u, tags |-> tags]
InFlight == BagCardinality(handlers)

\* The button handlers that write nothing the bot tracks: a close request
\* (see close_thread) and a priority request of someone who is not the
\* thread's owner.  Their steps commute with every other handler's, so the
\* model does not interleave them with other suspended handlers.
Inert(h) == h.kind = "close" \/ (h.kind = "bump" /\ h.who # ThreadOwner(h.t))
CanSuspend == /\ InFlight < MaxInFlight
              /\ \A h \in BagToSet(handlers) : ~Inert(h)
CanSuspendInert == InFlight = 0
Suspend(h) == handlers (+) SetToBag({h})
Resume(h) == handlers (-) SetToBag({h})
Suspended(k) == {h \in BagToSet(handlers) : h.kind = k}

\* thread.owner: the member object, None once the owner has left the guild;
\* thread.owner.id then raises AttributeError.
HasOwner(t) == ThreadOwner(t) \in members

\* BaseButton.has_permission: the member holds a staff role.
has_permission(user) == roles[user] \cap STAFF_ID # {}

\* list + ForumTag (main.py:448, 463, 533, 610, 643).
PlusRaises == tagPlus = "raises"
TagPlus(tags, tag) == tags \cup {tag}

\* A command issued on a thread: on a deleted thread it may have completed
\* before the deletion or fail with NotFound.
CmdResults(t) == IF thState[t] = "open" THEN {TRUE} ELSE {TRUE, FALSE}

\* What a command leaves on Discord: nothing once the thread is deleted.
Edited(t, tags) == IF thState[t] = "open"
                   THEN [applied_tags EXCEPT ![t] = tags] ELSE applied_tags
Closed(S, t) == IF thState[t] = "open" THEN S \cup {t} ELSE S
Sent(t, msg) == IF thState[t] = "open"
                THEN [sent EXCEPT ![t] = @ \cup {msg}] ELSE sent

\* ---------------------------------------------------------- reminder tasks
\* asyncio.create_task(self.schedule_thread_reminder(thread)): the task
\* sleeps REMINDER_TIME.  The new task takes the smallest id no live task
\* holds; the handle of a task that is over is written 0.
FreeTask(tk) == CHOOSE i \in TaskIds \ DOMAIN tk :
                  \A j \in TaskIds \ DOMAIN tk : i <= j
CanCreateTask(tk) == TaskIds \ DOMAIN tk # {}
NewTask(t) == [t |-> t, pc |-> "sleep", wake |-> now + REMINDER_TIME, tags |-> {}]

\* A task that ends (returns or raises): handles to it that are still in
\* scheduled_reminders refer to a finished task from now on.
DeadHandles(sr, id) == [x \in DOMAIN sr |-> IF sr[x] = id THEN 0 ELSE sr[x]]

\* Task.cancel(): the task is suspended in an await (the loop is single
\* threaded), CancelledError is raised there and nothing catches it.
\* Cancelling a finished task does nothing.
Cancel(tk, h) == IF h \in DOMAIN tk THEN Pop(tk, h) ELSE tk

\* ThreadManager.cleanup_thread: the tracking dictionaries and the tasks
\* after the call.
cleanup_thread(m, tk, thread_id, owner_id) ==
  [tm |-> [activity |-> Pop(m.activity, thread_id),
           track_posts |-> Pop(m.track_posts, owner_id),
           scheduled_reminders |-> Pop(m.scheduled_reminders, thread_id),
           bump_bool |-> Pop(m.bump_bool, thread_id)],
   tasks |-> IF thread_id \in DOMAIN m.scheduled_reminders
             THEN Cancel(tk, m.scheduled_reminders[thread_id])
             ELSE tk]

\* DiscordBot._reset_thread_reminder
reset_thread_reminder(m, tk, thread_id) ==
  LET tk1 == IF thread_id \in DOMAIN m.scheduled_reminders
             THEN Cancel(tk, m.scheduled_reminders[thread_id])
             ELSE tk
      id == FreeTask(tk1)
  IN [tm |-> [m EXCEPT !.scheduled_reminders = Put(@, thread_id, id)],
      tasks |-> Put(tk1, id, NewTask(thread_id))]

\* Whether the model has a task id left for the task _reset_thread_reminder
\* creates.
CanReset(m, tk, thread_id) ==
  \/ CanCreateTask(tk)
  \/ /\ thread_id \in DOMAIN m.scheduled_reminders
     /\ m.scheduled_reminders[thread_id] \in DOMAIN tk

\* ------------------------------------------------------------------- Init
Init ==
  /\ tagPlus \in {"raises", "joins"}
  /\ now = 0
  /\ members = Users
  /\ roles \in {[u \in Users |-> IF u \in S THEN {"staff"} ELSE {}] :
                   S \in {{"s1"}, {"s1", "o1"}}}
  /\ thState = [t \in Threads |-> "none"]
  /\ applied_tags = [t \in Threads |-> {}]
  /\ archived = {}
  /\ locked = {}
  /\ tm = [activity |-> Empty, scheduled_reminders |-> Empty,
           track_posts |-> Empty, bump_bool |-> Empty]
  /\ tasks = Empty
  /\ handlers = EmptyBag
  /\ sweep = [alive |-> TRUE, pc |-> "idle", cur |-> 0, pending |-> {},
              to_remove |-> {}, tags |-> {}]
  /\ sent = [t \in Threads |-> {}]

\* ------------------------------------------------------- on_thread_create
\* A member opens thread t in the troubleshoot forum with the tags chosen.
\* _handle_duplicate_post: the owner is registered, the handler awaits
\* thread.send.  Otherwise _setup_new_thread registers the thread at once
\* (no await lies between the check and line 462), builds post_tags and
\* awaits thread.edit.
on_thread_create(t, tags) ==
  /\ thState[t] = "none"
  /\ \A r \in Threads : r < t => thState[r] # "none"
  /\ HasOwner(t)
  /\ thState' = [thState EXCEPT ![t] = "open"]
  /\ applied_tags' = [applied_tags EXCEPT ![t] = tags]
  /\ IF ThreadOwner(t) \in DOMAIN tm.track_posts
     THEN /\ CanSuspend
          /\ handlers' = Suspend(Handler("dup", t, ThreadOwner(t), {}))
          /\ tm' = tm
     ELSE /\ tm' = [tm EXCEPT !.track_posts =
                      Put(@, ThreadOwner(t), Entry(t, ThreadOwner(t), tags))]
          /\ IF PlusRaises
             THEN handlers' = handlers
             ELSE /\ CanSuspend
                  /\ handlers' = Suspend(Handler("setup_edit", t, ThreadOwner(t),
                                                 TagPlus(tags, awaiting_response)))
  /\ UNCHANGED <<tagPlus, roles, now, members, archived, locked, tasks, sweep, sent>>

\* _handle_duplicate_post resumes from thread.send (the "Already Posted"
\* notice is out): post_tags is built from the registered thread's entry,
\* read again after the await, and thread.edit closes the new thread.
\* KeyError when the owner was unregistered meanwhile, AttributeError when
\* the owner left, TypeError when list + tag raises: the handler is over
\* and the thread stays as it is.
handle_duplicate_post(h) ==
  LET built == /\ HasOwner(h.t)
               /\ h.who \in DOMAIN tm.track_posts
               /\ ~PlusRaises
  IN
  /\ h.kind = "dup"
  /\ handlers' = Resume(h)
  /\ IF built /\ thState[h.t] = "open"
     THEN /\ applied_tags' = Edited(h.t, TagPlus(tm.track_posts[h.who].tags,
                                                  solved_closed))
          /\ archived' = Closed(archived, h.t)
          /\ locked' = Closed(locked, h.t)
     ELSE UNCHANGED <<applied_tags, archived, locked>>
  /\ UNCHANGED <<tagPlus, roles, now, members, thState, tm, tasks, sweep, sent>>

\* _setup_new_thread resumes from thread.edit(applied_tags=post_tags) and
\* awaits thread.send (and message.pin, which changes nothing the bot
\* reads).  A command on a deleted thread fails with NotFound.
setup_edit_done(h) ==
  /\ h.kind = "setup_edit"
  /\ \E ok \in CmdResults(h.t) :
       IF ok
       THEN /\ applied_tags' = Edited(h.t, h.tags)
            /\ handlers' = Resume(h) (+) SetToBag({[h EXCEPT !.kind = "setup_send"]})
       ELSE /\ applied_tags' = applied_tags
            /\ handlers' = Resume(h)
  /\ UNCHANGED <<tagPlus, roles, now, members, thState, archived, locked, tm, tasks,
                 sweep, sent>>

\* Lines 489-496: the opening message is out; the activity record, the bump
\* flag and the reminder are written, the reminder without looking at the
\* handle already stored.
setup_new_thread(m, tk, t) ==
  [tm |-> [m EXCEPT !.activity = Put(@, t, now),
                    !.bump_bool = Put(@, t, FALSE),
                    !.scheduled_reminders = Put(@, t, FreeTask(tk))],
   tasks |-> Put(tk, FreeTask(tk), NewTask(t))]

setup_send_done(h) ==
  /\ h.kind = "setup_send"
  /\ handlers' = Resume(h)
  /\ \E ok \in CmdResults(h.t) :
       IF ok
       THEN /\ CanCreateTask(tasks)
            /\ sent' = Sent(h.t, "opening")
            /\ tm' = setup_new_thread(tm, tasks, h.t).tm
            /\ tasks' = setup_new_thread(tm, tasks, h.t).tasks
       ELSE UNCHANGED <<sent, tm, tasks>>
  /\ UNCHANGED <<tagPlus, roles, now, members, discord, sweep>>

\* ------------------------------------------------------------- on_message
\* Lines 528-529 without line 530: the bump flag is left as it is.
update_tracking_KeepFlag(m, t, author) ==
  [m EXCEPT !.track_posts[ThreadOwner(t)].last = author,
            !.activity = Put(@, t, now)]

\* Lines 521-530: the author differs from the recorded last responder; the
\* owner's entry, the thread's activity record and its bump flag are written.
update_tracking(m, t, author) ==
  [m EXCEPT !.track_posts[ThreadOwner(t)].last = author,
            !.activity = Put(@, t, now),
            !.bump_bool = Put(@, t, FALSE)]

\* Qualifies without the return of lines 523-525.
Qualifies_NoAuthorCheck(m, t, author) ==
  /\ HasOwner(t)
  /\ ThreadOwner(t) \in DOMAIN m.track_posts

\* Lines 513-525 of _handle_thread_message: the message is one the handler
\* acts on.  thread.owner.id raises when the owner has left the guild.
Qualifies(m, t, author) ==
  /\ HasOwner(t)
  /\ ThreadOwner(t) \in DOMAIN m.track_posts
  /\ m.track_posts[ThreadOwner(t)].last # author

\* on_message for a message of member `author` in thread t.  A thread with
\* the closed tag is archived again.  Otherwise _handle_thread_message: the
\* tracking is updated; when the thread does not carry the in-progress tag
\* post_tags is built and the handler awaits thread.edit, else the reminder
\* is reset at once.
on_message(t, author) ==
  /\ thState[t] = "open"
  /\ author \in members
  /\ t \in locked => has_permission(author)
  /\ IF solved_closed \in applied_tags[t]
     THEN /\ archived' = archived \cup {t}
          /\ UNCHANGED <<tm, tasks, handlers>>
     ELSE /\ archived' = archived
          /\ IF ~Qualifies(tm, t, author)
             THEN UNCHANGED <<tm, tasks, handlers>>
             ELSE IF in_progress \in applied_tags[t]
             THEN /\ CanReset(tm, tasks, t)
                  /\ tm' = reset_thread_reminder(update_tracking(tm, t, author),
                                                 tasks, t).tm
                  /\ tasks' = reset_thread_reminder(update_tracking(tm, t, author),
                                                    tasks, t).tasks
                  /\ handlers' = handlers
             ELSE /\ tm' = update_tracking(tm, t, author)
                  /\ tasks' = tasks
                  /\ IF PlusRaises
                     THEN handlers' = handlers
                     ELSE /\ CanSuspend
                          /\ handlers' = Suspend(Handler("msg_edit", t, author,
                                 TagPlus(tm.track_posts[ThreadOwner(t)].tags,
                                         in_progress)))
  /\ UNCHANGED <<tagPlus, roles, now, members, thState, applied_tags, locked, sweep,
                 sent>>

\* _handle_thread_message resumes from thread.edit(applied_tags=post_tags)
\* and resets the reminder (lines 534-537).
handle_thread_message(h) ==
  /\ h.kind = "msg_edit"
  /\ handlers' = Resume(h)
  /\ \E ok \in CmdResults(h.t) :
       IF ok
       THEN /\ CanReset(tm, tasks, h.t)
            /\ applied_tags' = Edited(h.t, h.tags)
            /\ tm' = reset_thread_reminder(tm, tasks, h.t).tm
            /\ tasks' = reset_thread_reminder(tm, tasks, h.t).tasks
       ELSE UNCHANGED <<applied_tags, tm, tasks>>
  /\ UNCHANGED <<tagPlus, roles, now, members, thState, archived, locked, sweep, sent>>

\* ------------------------------------------------ schedule_thread_reminder
\* The task is over: it leaves `tasks`, and a handle to it is a handle to a
\* finished task.
EndTask(m, i) == [m EXCEPT !.scheduled_reminders = DeadHandles(@, i)]

\* Line 590: the reminder is due.
ReminderDue(last_active) == now - last_active >= REMINDER_TIME

\* The sleep of task i is over (lines 584-594).  No activity record: the
\* task returns.  Reminder due: _send_inactivity_reminder sets the bump flag
\* and awaits thread.send.  Not due: the task pops the thread's handle,
\* whichever task it belongs to, and is over.
schedule_thread_reminder(i) ==
  LET t == tasks[i].t IN
  /\ tasks[i].pc = "sleep"
  /\ now >= tasks[i].wake
  /\ IF t \notin DOMAIN tm.activity
     THEN /\ tm' = EndTask(tm, i)
          /\ tasks' = Pop(tasks, i)
     ELSE IF ReminderDue(tm.activity[t])
     THEN /\ tm' = [tm EXCEPT !.bump_bool = Put(@, t, TRUE)]
          /\ tasks' = [tasks EXCEPT ![i].pc = "send"]
     ELSE /\ tm' = EndTask([tm EXCEPT !.scheduled_reminders = Pop(@, t)], i)
          /\ tasks' = Pop(tasks, i)
  /\ UNCHANGED <<tagPlus, roles, now, members, discord, handlers, sweep, sent>>

\* _send_inactivity_reminder resumes from thread.send (the inactivity notice
\* with the ReminderView is out); line 610 builds post_tags from the owner's
\* entry and the task awaits thread.edit.  KeyError, AttributeError or
\* TypeError end the task where it stands: line 594 is not reached and the
\* handle stays in scheduled_reminders.
send_inactivity_reminder(i) ==
  LET t == tasks[i].t
      built == /\ HasOwner(t)
               /\ ThreadOwner(t) \in DOMAIN tm.track_posts
               /\ ~PlusRaises
  IN
  /\ tasks[i].pc = "send"
  /\ \E ok \in CmdResults(t) :
       /\ sent' = IF ok THEN Sent(t, "inactivity") ELSE sent
       /\ IF ok /\ built
          THEN /\ tasks' = [tasks EXCEPT ![i].pc = "edit",
                              ![i].tags = TagPlus(tm.track_posts[ThreadOwner(t)].tags,
                                                  inactive)]
               /\ tm' = tm
          ELSE /\ tasks' = Pop(tasks, i)
               /\ tm' = EndTask(tm, i)
  /\ UNCHANGED <<tagPlus, roles, now, members, discord, handlers, sweep>>

\* The task resumes from thread.edit(applied_tags=post_tags), returns to
\* schedule_thread_reminder and pops the thread's handle (line 594).
reminder_edit_done(i) ==
  LET t == tasks[i].t IN
  /\ tasks[i].pc = "edit"
  /\ tasks' = Pop(tasks, i)
  /\ \E ok \in CmdResults(t) :
       IF ok
       THEN /\ applied_tags' = Edited(t, tasks[i].tags)
            /\ tm' = EndTask([tm EXCEPT !.scheduled_reminders = Pop(@, t)], i)
       ELSE /\ applied_tags' = applied_tags
            /\ tm' = EndTask(tm, i)
  /\ UNCHANGED <<tagPlus, roles, now, members, thState, archived, locked, handlers,
                 sweep, sent>>

\* --------------------------------------------------- check_inactivity_task
\* Line 620: the thread is to be closed for inactivity.
Expired(last_active) == now - last_active >= AUTO_CLOSE_TIME

SweepIdle(alive) == [alive |-> alive, pc |-> "idle", cur |-> 0, pending |-> {},
                     to_remove |-> {}, tags |-> {}]

\* Lines 626-634, the cleanup of to_remove: `for uid, (tid, _) in
\* self.track_posts.items()` unpacks a three-element entry into two names
\* and raises ValueError at the first entry; with no entry at all owner_id
\* stays None.  cleanup_thread_tracking is never reached.  TRUE: the pass
\* ends normally.
sweep_cleanup(m, to_remove) == to_remove = {} \/ DOMAIN m.track_posts = {}

\* The for loop of lines 619-624 between two closes: the entries of the
\* snapshot are visited in the dictionary's order, which the model leaves
\* open.  A thread get_channel no longer finds is only queued for removal.
\* With no thread left to close the cleanup runs and the pass is over; an
\* exception ends the loop of tasks.loop for good.
sweep_advance(pending, to_remove) ==
  LET live == {t \in pending : thState[t] = "open"} IN
  IF live = {}
  THEN sweep' = SweepIdle(sweep_cleanup(tm, to_remove \cup pending))
  ELSE \E t \in live :
         sweep' = [sweep EXCEPT !.pc = "send", !.cur = t,
                                !.pending = pending \ {t},
                                !.to_remove = to_remove]

\* A pass of the loop starts: the snapshot of thread_activity is taken and
\* `now` read.
check_inactivity_task ==
  /\ sweep.alive
  /\ sweep.pc = "idle"
  /\ sweep_advance({t \in DOMAIN tm.activity : Expired(tm.activity[t])}, {})
  /\ UNCHANGED <<tagPlus, roles, now, members, discord, tm, tasks, handlers, sent>>

\* _auto_close_inactive_thread resumes from thread.send: post_tags is built
\* (line 643) and thread.edit awaited.  KeyError, AttributeError, TypeError
\* or a failed command leave the function and the loop.
auto_close_inactive_thread ==
  LET t == sweep.cur
      built == /\ HasOwner(t)
               /\ ThreadOwner(t) \in DOMAIN tm.track_posts
               /\ ~PlusRaises
  IN
  /\ sweep.pc = "send"
  /\ \E ok \in CmdResults(t) :
       IF ok /\ built
       THEN sweep' = [sweep EXCEPT !.pc = "edit",
                        !.tags = TagPlus(tm.track_posts[ThreadOwner(t)].tags,
                                         solved_closed)]
       ELSE sweep' = SweepIdle(FALSE)
  /\ UNCHANGED <<tagPlus, roles, now, members, discord, tm, tasks, handlers, sent>>

\* thread.edit(archived, locked, applied_tags) returns; the thread is queued
\* for removal and the loop goes on.
auto_close_edit_done ==
  LET t == sweep.cur IN
  /\ sweep.pc = "edit"
  /\ \E ok \in CmdResults(t) :
       IF ok
       THEN /\ applied_tags' = Edited(t, sweep.tags)
            /\ archived' = Closed(archived, t)
            /\ locked' = Closed(locked, t)
            /\ sweep_advance(sweep.pending, sweep.to_remove \cup {t})
       ELSE /\ UNCHANGED <<applied_tags, archived, locked>>
            /\ sweep' = SweepIdle(FALSE)
  /\ UNCHANGED <<tagPlus, roles, now, members, thState, tm, tasks, handlers, sent>>

\* -------------------------------------------------------- on_member_remove
\* Member u leaves the guild.  With a registered thread that get_channel
\* finds, _close_thread_on_leave awaits thread.send; else the finally clause
\* cleans up at once.
on_member_remove(u) ==
  /\ u \in members
  /\ members' = members \ {u}
  /\ IF ~CLOSE_ON_LEAVE \/ u \notin DOMAIN tm.track_posts
     THEN UNCHANGED <<tm, tasks, handlers>>
     ELSE IF thState[tm.track_posts[u].tid] = "open"
     THEN /\ CanSuspend
          /\ handlers' = Suspend(Handler("leave", tm.track_posts[u].tid, u, {}))
          /\ UNCHANGED <<tm, tasks>>
     ELSE /\ tm' = cleanup_thread(tm, tasks, tm.track_posts[u].tid, u).tm
          /\ tasks' = cleanup_thread(tm, tasks, tm.track_posts[u].tid, u).tasks
          /\ handlers' = handlers
  /\ UNCHANGED <<tagPlus, roles, now, discord, sweep, sent>>

\* _close_thread_on_leave resumes from thread.send: line 572 reads self.tag,
\* which DiscordBot does not have (its attribute is `tags`): AttributeError,
\* thread.edit is never issued.  on_member_remove logs the exception and its
\* finally clause cleans up.
close_thread_on_leave(h) ==
  /\ h.kind = "leave"
  /\ handlers' = Resume(h)
  /\ tm' = cleanup_thread(tm, tasks, h.t, h.who).tm
  /\ tasks' = cleanup_thread(tm, tasks, h.t, h.who).tasks
  /\ UNCHANGED <<tagPlus, roles, now, members, discord, sweep, sent>>

\* -------------------------------------------------------- on_thread_delete
\* Thread t is deleted on Discord, with what it held there.  A thread with
\* the closed tag is left alone by the handler; thread.owner.id raises when
\* the owner has left.
on_thread_delete(t) ==
  /\ thState[t] = "open"
  /\ thState' = [thState EXCEPT ![t] = "deleted"]
  /\ applied_tags' = [applied_tags EXCEPT ![t] = {}]
  /\ archived' = archived \ {t}
  /\ locked' = locked \ {t}
  /\ sent' = [sent EXCEPT ![t] = {}]
  /\ IF solved_closed \in applied_tags[t] \/ ~HasOwner(t)
     THEN UNCHANGED <<tm, tasks>>
     ELSE /\ tm' = cleanup_thread(tm, tasks, t, ThreadOwner(t)).tm
          /\ tasks' = cleanup_thread(tm, tasks, t, ThreadOwner(t)).tasks
  /\ UNCHANGED <<tagPlus, roles, now, members, handlers, sweep>>

\* ------------------------------------------------------------ the buttons
\* BaseButton.is_thread_owner
is_thread_owner(t, user) == HasOwner(t) /\ user = ThreadOwner(t)

\* The messages that carry the buttons: the opening message (OpeningView:
\* close, and the staff tools with mark priority) and the inactivity notice
\* (ReminderView: close and mark priority).
HasCloseButton(t) == sent[t] \cap {"opening", "inactivity"} # {}
HasPriorityButton(t, user) ==
  \/ "inactivity" \in sent[t]
  \/ "opening" \in sent[t] /\ has_permission(user)

\* CloseButton.callback: the button is pressed by member `user`; the
\* handler awaits interaction.response.defer().
CloseButton_callback(t, user) ==
  /\ thState[t] = "open"
  /\ user \in members
  /\ HasCloseButton(t)
  /\ CanSuspendInert
  /\ handlers' = Suspend(Handler("close", t, user, {}))
  /\ UNCHANGED <<tagPlus, roles, now, members, discord, tm, tasks, sweep, sent>>

\* Lines 111-118: who may close.
MayClose(t, user) == is_thread_owner(t, user) \/ has_permission(user)

\* The callback resumes.  For the owner or staff _close_thread sends the
\* "Post Closed" notice, then line 127 reads self.track_posts and self.tag
\* on the button, which has neither: AttributeError before thread.edit and
\* before cleanup_thread_tracking (line 136).  Anyone else is told that the
\* permission is denied.  Either way nothing the bot tracks has changed.
close_thread(h) ==
  /\ handlers' = Resume(h)
  /\ UNCHANGED <<tagPlus, roles, now, members, discord, tm, tasks, sweep, sent>>

\* dict.get(thread_id, False) on bump_bool
BumpFlag(m, t) == t \in DOMAIN m.bump_bool /\ m.bump_bool[t]

\* Lines 172-177 with the owner admitted whatever the flag is.
MayBump_IgnoreFlag(m, t, user) ==
  has_permission(user) \/ is_thread_owner(t, user)

\* Line 172-177: the request goes on to process_bump.
MayBump(m, t, user) ==
  \/ has_permission(user)
  \/ is_thread_owner(t, user) /\ BumpFlag(m, t)

\* MarkPriorityButton.callback: staff (through the reason modal) and the
\* owner with the bump flag set reach process_bump, which awaits the
\* deferral and bump_channel.send; anyone else gets the error message.
MarkPriorityButton_callback(t, user) ==
  /\ thState[t] = "open"
  /\ user \in members
  /\ HasPriorityButton(t, user)
  /\ IF MayBump(tm, t, user)
     THEN /\ IF Inert(Handler("bump", t, user, {}))
             THEN CanSuspendInert ELSE CanSuspend
          /\ handlers' = Suspend(Handler("bump", t, user, {}))
     ELSE handlers' = handlers
  /\ UNCHANGED <<tagPlus, roles, now, members, discord, tm, tasks, sweep, sent>>

\* process_bump without lines 198-200: the flag is left as it is.
consume_bump_KeepFlag(m, t, user) == m

\* Lines 198-200: the flag of the owner's thread is cleared.
consume_bump(m, t, user) ==
  IF is_thread_owner(t, user)
  THEN [m EXCEPT !.bump_bool = Put(@, t, FALSE)]
  ELSE m

\* process_bump resumes from bump_channel.send: the priority notice is in
\* the bump channel.
process_bump(h) ==
  /\ h.kind = "bump"
  /\ handlers' = Resume(h)
  /\ tm' = consume_bump(tm, h.t, h.who)
  /\ UNCHANGED <<tagPlus, roles, now, members, discord, tasks, sweep, sent>>

\* ------------------------------------------------------------------ clock
\* A unit of time passes.
Tick ==
  /\ now < MaxTime
  /\ InFlight = 0
  /\ \A i \in DOMAIN tasks : tasks[i].pc = "sleep" /\ tasks[i].wake > now
  /\ sweep.pc = "idle"
  /\ now' = now + 1
  /\ UNCHANGED <<tagPlus, roles, members, discord, tm, tasks, handlers, sweep, sent>>

Next ==
  \/ \E t \in Threads, tags \in CreateTags : on_thread_create(t, tags)
  \/ \E h \in Suspended("dup") : handle_duplicate_post(h)
  \/ \E h \in Suspended("setup_edit") : setup_edit_done(h)
  \/ \E h \in Suspended("setup_send") : setup_send_done(h)
  \/ \E t \in Threads, u \in Posters : on_message(t, u)
  \/ \E h \in Suspended("msg_edit") : handle_thread_message(h)
  \/ \E i \in DOMAIN tasks : schedule_thread_reminder(i)
  \/ \E i \in DOMAIN tasks : send_inactivity_reminder(i)
  \/ \E i \in DOMAIN tasks : reminder_edit_done(i)
  \/ check_inactivity_task
  \/ auto_close_inactive_thread
  \/ auto_close_edit_done
  \/ \E u \in Owners : on_member_remove(u)
  \/ \E h \in Suspended("leave") : close_thread_on_leave(h)
  \/ \E t \in Threads : on_thread_delete(t)
  \/ \E t \in Threads, u \in Users : CloseButton_callback(t, u)
  \/ \E t \in Threads, u \in Users : MarkPriorityButton_callback(t, u)
  \/ \E h \in Suspended("close") : close_thread(h)
  \/ \E h \in Suspended("bump") : process_bump(h)
  \/ Tick

Spec == Init /\ [][Next]_vars
\* ============================================================== the claims
\* Thread t is the owner's registered thread in tracking state m.
RegisteredIn(m, t) ==
  /\ ThreadOwner(t) \in DOMAIN m.track_posts
  /\ m.track_posts[ThreadOwner(t)].tid = t
Registered(t) == RegisteredIn(tm, t)

\* The live reminder tasks of thread t among the tasks tk.
LiveRemindersIn(tk, t) == {i \in DOMAIN tk : tk[i].t = t}
LiveReminders(t) == LiveRemindersIn(tasks, t)

\* No tracking state is left for thread t.
NoTrackingIn(m, tk, t) ==
  /\ ~RegisteredIn(m, t)
  /\ t \notin DOMAIN m.activity
  /\ t \notin DOMAIN m.bump_bool
  /\ t \notin DOMAIN m.scheduled_reminders
  /\ LiveRemindersIn(tk, t) = {}

\* Thread t is on Discord and does not carry the closed tag.
NonClosed(t) == thState[t] = "open" /\ solved_closed \notin applied_tags[t]

\* Thread t is closed on Discord: closed tag, archived and locked.
ClosedOnDiscord(tags, arch, lock, t) ==
  solved_closed \in tags[t] /\ t \in arch /\ t \in lock

\* C1: in every reachable state each owner has at most one non-closed thread
\* that is tracked: registered in track_posts or holding an activity record.
C1_OneTrackedThreadPerOwner ==
  \A u \in Owners :
    Cardinality({t \in Threads : /\ ThreadOwner(t) = u
                                 /\ NonClosed(t)
                                 /\ (Registered(t) \/ t \in DOMAIN tm.activity)}) <= 1

\* C2: when _handle_duplicate_post has run for a thread opened by an owner
\* who has a registered thread, the new thread is closed (closed tag,
\* archived, locked), has no tracking state of its own, and the step leaves
\* the registered thread's tracking as it was.
C2_DuplicateIsClosed ==
  [][\A h \in Suspended("dup") :
       (handlers' = Resume(h) /\ thState[h.t] = "open")
         => /\ ClosedOnDiscord(applied_tags', archived', locked', h.t)
            /\ NoTrackingIn(tm', tasks', h.t)
            /\ tm' = tm /\ tasks' = tasks]_vars

\* C3: a message in a tracked non-closed thread whose author is the recorded
\* last responder changes nothing: the tracking dictionaries, the reminder
\* tasks and the thread's labels and archive state stay as they are.
SameAuthorMessage(t, author) ==
  /\ NonClosed(t)
  /\ ThreadOwner(t) \in DOMAIN tm.track_posts
  /\ tm.track_posts[ThreadOwner(t)].last = author

C3_SameAuthorChangesNothing ==
  [][\A t \in Threads, author \in Posters :
       (SameAuthorMessage(t, author) /\ on_message(t, author))
         => UNCHANGED <<tm, tasks, handlers, applied_tags, archived, locked>>]_vars

\* A state in which such a message is received: the registered thread has a
\* sleeping reminder that the handle points to, time has passed since its
\* last activity, and the last responder (the staff member) can post again.
C3_Witness ==
  \E t \in Threads :
    /\ SameAuthorMessage(t, "s1") /\ Registered(t)
    /\ "s1" \in members /\ t \notin locked
    /\ t \in DOMAIN tm.activity /\ tm.activity[t] < now
    /\ t \in DOMAIN tm.scheduled_reminders
    /\ tm.scheduled_reminders[t] \in DOMAIN tasks
    /\ tasks[tm.scheduled_reminders[t]].pc = "sleep"

SweepPassEnds == sweep.pc # "idle" /\ sweep'.pc = "idle"

\* C5: a sweep pass closes a tracked thread if and only if now minus its
\* last-activity record is at least AUTO_CLOSE_TIME: when a pass is over,
\* every thread on Discord whose record is that old is closed, and the pass
\* closes no thread whose record is younger.  Reminders and the bump flag
\* play no part.
C5_SweepClosesIffExpired ==
  [][/\ SweepPassEnds
          => \A t \in Threads :
               (/\ thState'[t] = "open"
                /\ t \in DOMAIN tm'.activity
                /\ Expired(tm'.activity[t]))
                 => ClosedOnDiscord(applied_tags', archived', locked', t)
     /\ (sweep.pc = "edit" /\ sweep.cur \notin locked /\ sweep.cur \in locked')
          => /\ sweep.cur \in DOMAIN tm.activity
             /\ Expired(tm.activity[sweep.cur])]_vars

\* An escalation of the thread's owner who is not staff (the owner path of
\* MarkPriorityButton.callback), the owner still being a member.
OwnerEscalation(h) ==
  /\ h.kind = "bump"
  /\ h.who = ThreadOwner(h.t)
  /\ ~has_permission(h.who)
  /\ h.who \in members

C7_OwnerLeftClosesThread ==
  [][\A h \in Suspended("leave") :
       (handlers' = Resume(h) /\ thState[h.t] = "open")
         => /\ ClosedOnDiscord(applied_tags', archived', locked', h.t)
            /\ NoTrackingIn(tm', tasks', h.t)]_vars

\* Thread t is tracked and awaits a response: registered, on Discord and not
\* closed, its owner the recorded last responder, no reminder fired.
AwaitingResponse(t) ==
  /\ Registered(t)
  /\ NonClosed(t)
  /\ tm.track_posts[ThreadOwner(t)].last = ThreadOwner(t)
  /\ in_progress \notin applied_tags[t]
  /\ inactive \notin applied_tags[t]
  /\ ~BumpFlag(tm, t)

\* C8: a message in a tracked AwaitingResponse thread from someone who is
\* not the recorded last responder records the author and the posting time,
\* clears the bump flag and starts the edit that applies the in-progress
\* tag; when that edit is done the thread carries the tag and exactly one
\* reminder is live for it, the one scheduled_reminders points to, due at
\* the new last activity plus REMINDER_TIME.
C8_ReplyMakesInProgress ==
  [][/\ \A t \in Threads, author \in Posters :
          (/\ AwaitingResponse(t)
           /\ author # ThreadOwner(t)
           /\ on_message(t, author))
            => /\ tm'.track_posts[ThreadOwner(t)].last = author
               /\ t \in DOMAIN tm'.activity /\ tm'.activity[t] = now
               /\ ~BumpFlag(tm', t)
               /\ \E h \in BagToSet(handlers') :
                    /\ h.kind = "msg_edit" /\ h.t = t
                    /\ in_progress \in h.tags
     /\ \A h \in Suspended("msg_edit") :
          (/\ handlers' = Resume(h)
           /\ h.who # ThreadOwner(h.t)
           /\ Registered(h.t) /\ NonClosed(h.t) /\ HasOwner(h.t))
            => /\ in_progress \in applied_tags'[h.t]
               /\ Cardinality(LiveRemindersIn(tasks', h.t)) = 1
               /\ h.t \in DOMAIN tm'.scheduled_reminders
               /\ tm'.scheduled_reminders[h.t] \in LiveRemindersIn(tasks', h.t)
               /\ h.t \in DOMAIN tm'.activity
               /\ \A i \in LiveRemindersIn(tasks', h.t) :
                    /\ tasks'[i].pc = "sleep"
                    /\ tasks'[i].wake = tm'.activity[h.t] + REMINDER_TIME]_vars

\* The run of C9: thread 1 of owner o1 is the only thread, opened at time 0;
\* nobody has left and nobody but the owner is recorded as having posted.
C9_Run ==
  /\ thState[1] = "open"
  /\ \A t \in Threads \ {1} : thState[t] = "none"
  /\ members = Users
  /\ Registered(1)
  /\ tm.track_posts["o1"].last = "o1"
  /\ in_progress \notin applied_tags[1]
  /\ 1 \in DOMAIN tm.activity => tm.activity[1] = 0

\* C9: in that run, when the clock leaves time 0 thread 1 carries the
\* awaiting-response tag and its reminder is set for REMINDER_TIME; the
\* reminder sets the bump flag when it fires and, when it is done, the
\* inactivity notice is out and the thread carries the inactive tag; the
\* owner's escalation is then accepted and leaves the flag false; and the
\* sweep pass run once the record is AUTO_CLOSE_TIME old leaves thread 1
\* closed and without tracking state.
C9_OpenRemindEscalateClose ==
  [][C9_Run =>
       /\ (now = 0 /\ now' = 1)
            => /\ awaiting_response \in applied_tags[1]
               /\ 1 \in DOMAIN tm.activity
               /\ 1 \in DOMAIN tm.scheduled_reminders
               /\ tm.scheduled_reminders[1] \in LiveReminders(1)
               /\ tasks[tm.scheduled_reminders[1]].wake = REMINDER_TIME
       /\ \A i \in LiveReminders(1) :
            /\ (now = REMINDER_TIME /\ schedule_thread_reminder(i))
                 => /\ i \in DOMAIN tasks' /\ tasks'[i].pc = "send"
                    /\ BumpFlag(tm', 1)
            /\ reminder_edit_done(i)
                 => /\ inactive \in applied_tags'[1]
                    /\ "inactivity" \in sent'[1]
       /\ (BumpFlag(tm, 1) /\ MarkPriorityButton_callback(1, "o1"))
            => handlers' = Suspend(Handler("bump", 1, "o1", {}))
       /\ \A h \in Suspended("bump") :
            (h.who = "o1" /\ handlers' = Resume(h)) => ~BumpFlag(tm', 1)
       /\ (SweepPassEnds /\ 1 \in DOMAIN tm.activity /\ Expired(tm.activity[1]))
            => /\ ClosedOnDiscord(applied_tags', archived', locked', 1)
               /\ NoTrackingIn(tm', tasks', 1)]_vars

\* C10: when a terminal transition of a thread is over, no tracking state is
\* left for the thread: the close requested by the owner or staff, the
\* handling of the owner's leaving, the sweep pass that closed the thread,
\* and the deletion of a thread that was not closed.
C10_NoTrackingAfterTerminal ==
  [][/\ \A h \in Suspended("close") :
          (handlers' = Resume(h) /\ MayClose(h.t, h.who) /\ NonClosed(h.t))
            => NoTrackingIn(tm', tasks', h.t)
     /\ \A h \in Suspended("leave") :
          handlers' = Resume(h) => NoTrackingIn(tm', tasks', h.t)
     /\ SweepPassEnds
          => \A t \in sweep.to_remove \cup
                      (IF sweep.pc = "edit" /\ sweep.cur \in locked'
                       THEN {sweep.cur} ELSE {}) :
               NoTrackingIn(tm', tasks', t)
     /\ \A t \in Threads :
          (NonClosed(t) /\ thState'[t] = "deleted")
            => NoTrackingIn(tm', tasks', t)]_vars

\* The statuses a thread on Discord shows: Closed by the closed tag,
\* Inactive by the inactive tag (applied when the reminder is delivered).
ClosedStatus(t) == thState[t] = "open" /\ solved_closed \in applied_tags[t]
InactiveStatus(t) == NonClosed(t) /\ inactive \in applied_tags[t]

C12_BumpFlagOnlyWhenInactive ==
  \A t \in Threads :
    BumpFlag(tm, t) => /\ t \in DOMAIN tm.activity
                       /\ ReminderDue(tm.activity[t])

\* A reminder of thread t has fired and is still delivering (awaiting
\* thread.send or thread.edit) while a qualifying message in t has been
\* processed and its handler awaits thread.edit: the flag is false again.
C12_Witness ==
  \E i \in DOMAIN tasks, h \in Suspended("msg_edit") :
    /\ tasks[i].pc \in {"send", "edit"}
    /\ h.t = tasks[i].t
    /\ thState[h.t] = "open"
    /\ h.t \in DOMAIN tm.bump_bool /\ ~tm.bump_bool[h.t]
    /\ tm.activity[h.t] = now

C15_RejectedEscalation ==
  [][\A t \in Threads, u \in Users :
       (/\ ~has_permission(u)
        /\ u # ThreadOwner(t) \/ ~BumpFlag(tm, t))
         => /\ CopiesIn(Handler("bump", t, u, {}), handlers')
                 <= CopiesIn(Handler("bump", t, u, {}), handlers)
            /\ MarkPriorityButton_callback(t, u)
                 => UNCHANGED <<tm, tasks, handlers, discord, sent>>]_vars

\* A request that is rejected can be made: the inactivity notice with the
\* priority button is in the thread, the owner is not staff, and the bump
\* flag is false although the activity record is REMINDER_TIME old (the
\* escalation of the window is used, or the next reminder has not run yet).
C15_Witness ==
  \E t \in Threads :
    /\ thState[t] = "open"
    /\ "inactivity" \in sent[t]
    /\ ThreadOwner(t) \in members /\ "h1" \in members
    /\ ~has_permission(ThreadOwner(t))
    /\ t \in DOMAIN tm.bump_bool /\ ~tm.bump_bool[t]
    /\ t \in DOMAIN tm.activity /\ ReminderDue(tm.activity[t])
    /\ InFlight = 0

TrackingKept(r) ==
  /\ RegisteredIn(tm', r)
  /\ tm'.track_posts[ThreadOwner(r)] = tm.track_posts[ThreadOwner(r)]
  /\ \A d \in {"activity", "bump_bool", "scheduled_reminders"} :
       /\ r \in DOMAIN tm'[d] <=> r \in DOMAIN tm[d]
       /\ r \in DOMAIN tm[d] => tm'[d][r] = tm[d][r]
  /\ LiveRemindersIn(tasks', r) = LiveRemindersIn(tasks, r)

\* C17: the deletion or the close of a thread leaves the tracking of every
\* other thread that is its owner's registered thread in place.
C17_OtherThreadKeepsRegistry ==
  [][\A t \in Threads :
       (/\ thState[t] = "open"
        /\ \/ thState'[t] = "deleted"
           \/ solved_closed \notin applied_tags[t] /\ solved_closed \in applied_tags'[t])
         => \A r \in Threads \ {t} : Registered(r) => TrackingKept(r)]_vars

\* The dictionaries hold nothing for thread t.
NoRecordsIn(m, t) ==
  /\ ~RegisteredIn(m, t)
  /\ t \notin DOMAIN m.activity
  /\ t \notin DOMAIN m.bump_bool
  /\ t \notin DOMAIN m.scheduled_reminders

OwnerBumps(t) == CopiesIn(Handler("bump", t, ThreadOwner(t), {}), handlers)

SweepCommandFails ==
  LET t == sweep.cur IN
  /\ sweep.pc \in {"send", "edit"}
  /\ thState[t] = "deleted"
  /\ sweep' # sweep
  /\ sweep'.pc # "edit"
  /\ discord' = discord
  /\ sweep.pc = "send" => /\ HasOwner(t)
                          /\ ThreadOwner(t) \in DOMAIN tm.track_posts
                          /\ ~PlusRaises
  /\ sweep.pc = "edit" => t \notin archived

ExpiredTracked(t) ==
  /\ thState[t] = "open"
  /\ HasOwner(t)
  /\ Registered(t)
  /\ t \in DOMAIN tm.activity
  /\ Expired(tm.activity[t])

\* A command the bot awaits returns and the coroutine suspended on it runs
\* on; a reminder task whose sleep is over is resumed.
CommandsComplete ==
  \/ \E h \in Suspended("dup") : handle_duplicate_post(h)
  \/ \E h \in Suspended("setup_edit") : setup_edit_done(h)
  \/ \E h \in Suspended("setup_send") : setup_send_done(h)
  \/ \E h \in Suspended("msg_edit") : handle_thread_message(h)
  \/ \E h \in Suspended("leave") : close_thread_on_leave(h)
  \/ \E h \in Suspended("close") : close_thread(h)
  \/ \E h \in Suspended("bump") : process_bump(h)
  \/ \E i \in DOMAIN tasks : schedule_thread_reminder(i)
  \/ \E i \in DOMAIN tasks : send_inactivity_reminder(i)
  \/ \E i \in DOMAIN tasks : reminder_edit_done(i)

\* Fair scheduling: tasks.loop(minutes=10) starts a pass of
\* check_inactivity_task whenever the loop is running and idle, the commands
\* the pass awaits return, and so do the commands of the other coroutines.
\* What members do (posting, pressing buttons, leaving, deleting) and the
\* bounded clock carry no fairness.
FairSpec ==
  /\ Spec
  /\ WF_vars(check_inactivity_task)
  /\ WF_vars(auto_close_inactive_thread)
  /\ WF_vars(auto_close_edit_done)
  /\ WF_vars(CommandsComplete)

\* C23: under fair scheduling of the sweep, every tracked thread whose
\* activity record has expired is eventually closed for inactivity and
\* removed from tracking (so that its owner's next thread is tracked and not
\* a duplicate), unless it stops being such a thread some other way: a
\* qualifying message refreshes the record, the thread is deleted or closed
\* by hand, or the owner leaves.  For every thread, also one that expires
\* after another was auto-closed.
C23_ExpiredThreadEventuallyUntracked ==
  \A t \in Threads : ExpiredTracked(t) ~> ~ExpiredTracked(t)

\* The owner of thread t is registered, but for another thread.
RegisteredElsewhere(t) ==
  /\ ThreadOwner(t) \in DOMAIN tm.track_posts
  /\ tm.track_posts[ThreadOwner(t)].tid # t

\* C24: a message posted in a thread that is not the registered thread of
\* its owner (the owner is registered for a different thread) changes no
\* tracking state: the registered thread's entry and last responder, the
\* activity records, the bump flags and the reminders are as before, and the
\* handler leaves nothing that would later write them.
C24_UnregisteredThreadMessage ==
  [][\A t \in Threads, author \in Posters :
       (RegisteredElsewhere(t) /\ on_message(t, author))
         => UNCHANGED <<tm, tasks, handlers>>]_vars

=============================================================================
